---- MODULE Spec2Model ----
(***************************************************************************)
(* The AI suggestion session of the editor: the XState machine             *)
(* editorMachine, the stream actors it invokes, the hook useEditorAI that  *)
(* sends it events, and the part of the Editor component that splices the  *)
(* streamed text into the ProseMirror document and accepts, rejects or     *)
(* modifies it.                                                            *)
(*                                                                         *)
(* The document is the flat token sequence ProseMirror positions count:    *)
(* one token opens the paragraph, one closes it, and every character is    *)
(* one token, so position p has p tokens before it.  A character token     *)
(* carries the em mark the Editor uses for provisional text.               *)
(*                                                                         *)
(* Strings are sequences of one-character strings.  The streams modelled   *)
(* are the character streams of generateContinuationStream (no editor      *)
(* context) and modifyTextStream: one character per chunk.                 *)
(***************************************************************************)
EXTENDS Integers, Sequences, FiniteSets, TLC

\* ------------------------------------------------------------------ bounds
\* chunks the streams emit at most, all streams together
MaxChunks == 3
\* streams started at most
MaxSessions == 2

\* ------------------------------------------------------------------ values
\* useRef<number | null>(null): the null of aiTextStartPosRef
null == -1

\* the i-th chunk the text service yields is the i-th letter or a blank
Letters == <<"a", "b", "c", "d", "e">>
Blank == " "
CR == "\r"

Open == [ch |-> "<p>", em |-> FALSE]
Close == [ch |-> "</p>", em |-> FALSE]

Cell(c, mark) == [ch |-> c, em |-> mark]

Para(s) == <<Open>> \o [i \in 1..Len(s) |-> Cell(s[i], FALSE)] \o <<Close>>

\* the documents the editor is mounted with (initialContent)
InitialDocs == { Para(<<"w", "x", "y", "z">>) }

\* the characters the user types, each while the document does not hold it
TypedChars == {"u"}

\* ---------------------------------------------------------- string helpers
IsSpace(c) == c \in {Blank, CR}

RECURSIVE TrimStart(_)
TrimStart(s) ==
    IF s = <<>> THEN <<>>
    ELSE IF IsSpace(Head(s)) THEN TrimStart(Tail(s)) ELSE s

RECURSIVE TrimEnd(_)
TrimEnd(s) ==
    IF s = <<>> THEN <<>>
    ELSE IF IsSpace(s[Len(s)]) THEN TrimEnd(SubSeq(s, 1, Len(s) - 1)) ELSE s

\* String.prototype.trim
Trim(s) == TrimEnd(TrimStart(s))

\* newChunk.replace(/\r/g, "")
RemoveCR(s) == SelectSeq(s, LAMBDA c : c # CR)

\* String.prototype.slice(n)
Slice(s, n) == SubSeq(s, n + 1, Len(s))

\* ------------------------------------------------------ document (ProseMirror)
IsChar(t) == t # Open /\ t # Close

\* doc.textBetween(from, to): the characters between two positions
TextBetween(d, from, to) ==
    LET cells == SelectSeq(SubSeq(d, from + 1, to), IsChar)
    IN  [i \in 1..Len(cells) |-> cells[i].ch]

\* the characters between two positions that carry the em mark
MarkedBetween(d, from, to) ==
    LET cells == SelectSeq(SubSeq(d, from + 1, to), LAMBDA t : t.em)
    IN  [i \in 1..Len(cells) |-> cells[i].ch]

\* tr.insert(p, schema.text(s, marks)) at a position inside the paragraph
InsertText(d, p, s, mark) ==
    SubSeq(d, 1, p) \o [i \in 1..Len(s) |-> Cell(s[i], mark)] \o SubSeq(d, p + 1, Len(d))

\* Mapping.map(q) over an insertion of n tokens at p (assoc = 1)
MapInsert(q, p, n) == IF q >= p THEN q + n ELSE q

\* tr.delete(from, to), both positions inside the paragraph
DeleteRange(d, from, to) == SubSeq(d, 1, from) \o SubSeq(d, to + 1, Len(d))

\* Mapping.map(q) over a deletion of [from, to)
MapDelete(q, from, to) ==
    IF q <= from THEN q ELSE IF q >= to THEN q - (to - from) ELSE from

\* tr.removeMark(from, to, schema.marks.em)
RemoveMark(d, from, to) ==
    [i \in 1..Len(d) |-> IF from < i /\ i <= to THEN [d[i] EXCEPT !.em = FALSE] ELSE d[i]]

\* the marks typed text gets at a cursor: those of the character before it,
\* at the start of the paragraph those of the character after it
MarksAt(d, p) ==
    IF IsChar(d[p]) THEN d[p].em
    ELSE IF IsChar(d[p + 1]) THEN d[p + 1].em ELSE FALSE

\* the last position inside the paragraph
BlockEnd(d) == Len(d) - 1

\* --------------------------------------------------------------- the machine
NoError == "null"

\* String(event.error)
StreamFailure == "Error: stream failed"

\* createMachine context
InitialContext ==
    [generatedText |-> <<>>, pendingSuggestion |-> <<>>, error |-> NoError,
     selectedText |-> <<>>]

GenerateEvents == {"GENERATE", "GENERATE_WITH_ACTION"}

\* states.idle.on: the snapshot after event ev is received with context ctx;
\* an event the state has no handler for is dropped
idle(ctx, ev) ==
    CASE ev.type = "GENERATE" ->
           [value |-> "streaming",
            context |-> [ctx EXCEPT !.generatedText = <<>>, !.pendingSuggestion = <<>>,
                                    !.error = NoError]]
      [] ev.type = "GENERATE_WITH_ACTION" ->
           [value |-> "modifying",
            context |-> [ctx EXCEPT !.generatedText = <<>>, !.pendingSuggestion = <<>>,
                                    !.selectedText = ev.selectedText, !.error = NoError]]
      [] OTHER -> [value |-> "idle", context |-> ctx]

\* states.streaming.on with AI.CHUNK replacing the text instead of appending
streamingKeepsLastChunk(ctx, ev) ==
    CASE ev.type = "AI.CHUNK" ->
           [value |-> "streaming", context |-> [ctx EXCEPT !.generatedText = <<ev.chunk>>]]
      [] ev.type = "AI.DONE" ->
           [value |-> "pending",
            context |-> [ctx EXCEPT !.pendingSuggestion = ctx.generatedText]]
      [] ev.type = "AI.ERROR" ->
           [value |-> "idle", context |-> [ctx EXCEPT !.error = ev.error]]
      [] ev.type = "STOP" -> [value |-> "idle", context |-> ctx]
      [] OTHER -> [value |-> "streaming", context |-> ctx]

\* states.streaming.on
streaming(ctx, ev) ==
    CASE ev.type = "AI.CHUNK" ->
           [value |-> "streaming",
            context |-> [ctx EXCEPT !.generatedText = ctx.generatedText \o <<ev.chunk>>]]
      [] ev.type = "AI.DONE" ->
           [value |-> "pending",
            context |-> [ctx EXCEPT !.pendingSuggestion = ctx.generatedText]]
      [] ev.type = "AI.ERROR" ->
           [value |-> "idle", context |-> [ctx EXCEPT !.error = ev.error]]
      [] ev.type = "STOP" -> [value |-> "idle", context |-> ctx]
      [] OTHER -> [value |-> "streaming", context |-> ctx]

\* states.pending.on with a handler for GENERATE added
pendingRestarts(ctx, ev) ==
    CASE ev.type \in {"ACCEPT", "REJECT"} ->
           [value |-> "idle",
            context |-> [ctx EXCEPT !.generatedText = <<>>, !.pendingSuggestion = <<>>]]
      [] ev.type = "MODIFY" ->
           [value |-> "modifying", context |-> [ctx EXCEPT !.generatedText = <<>>]]
      [] ev.type = "GENERATE" ->
           [value |-> "streaming",
            context |-> [ctx EXCEPT !.generatedText = <<>>, !.pendingSuggestion = <<>>,
                                    !.error = NoError]]
      [] OTHER -> [value |-> "pending", context |-> ctx]

\* states.pending.on
pending(ctx, ev) ==
    CASE ev.type \in {"ACCEPT", "REJECT"} ->
           [value |-> "idle",
            context |-> [ctx EXCEPT !.generatedText = <<>>, !.pendingSuggestion = <<>>]]
      [] ev.type = "MODIFY" ->
           [value |-> "modifying", context |-> [ctx EXCEPT !.generatedText = <<>>]]
      [] OTHER -> [value |-> "pending", context |-> ctx]

\* states.modifying.on with STOP targeting idle
modifyingStopsIdle(ctx, ev) ==
    CASE ev.type = "AI.CHUNK" ->
           [value |-> "modifying",
            context |-> [ctx EXCEPT !.generatedText = ctx.generatedText \o <<ev.chunk>>]]
      [] ev.type = "AI.DONE" ->
           [value |-> "pending",
            context |-> [ctx EXCEPT !.pendingSuggestion = ctx.generatedText]]
      [] ev.type = "AI.ERROR" ->
           [value |-> "pending", context |-> [ctx EXCEPT !.error = ev.error]]
      [] ev.type = "STOP" -> [value |-> "idle", context |-> ctx]
      [] OTHER -> [value |-> "modifying", context |-> ctx]

\* states.modifying.on
modifying(ctx, ev) ==
    CASE ev.type = "AI.CHUNK" ->
           [value |-> "modifying",
            context |-> [ctx EXCEPT !.generatedText = ctx.generatedText \o <<ev.chunk>>]]
      [] ev.type = "AI.DONE" ->
           [value |-> "pending",
            context |-> [ctx EXCEPT !.pendingSuggestion = ctx.generatedText]]
      [] ev.type = "AI.ERROR" ->
           [value |-> "pending", context |-> [ctx EXCEPT !.error = ev.error]]
      [] ev.type = "STOP" -> [value |-> "pending", context |-> ctx]
      [] OTHER -> [value |-> "modifying", context |-> ctx]

\* editorMachine.states: the snapshot [value, context] after event ev is
\* received in snapshot s
editorMachine(s, ev) ==
    CASE s.value = "idle" -> idle(s.context, ev)
      [] s.value = "streaming" -> streaming(s.context, ev)
      [] s.value = "pending" -> pending(s.context, ev)
      [] s.value = "modifying" -> modifying(s.context, ev)

\* the states that invoke a stream actor
Invoking == {"streaming", "modifying"}

\* invoke.src of a state
ActorOf(value) == IF value = "streaming" THEN "streamingAI" ELSE "modifyingAI"

\* --------------------------------------------------------------------- state
VARIABLES
    state,                  \* useMachine(editorMachine): [value, context]
    ignored,                \* the event the machine dropped last, "none" once it takes one
    actor,                  \* the invoked stream actor: [src, cancelled]
    emitted,                \* chunks passed to sendBack so far
    sessions,               \* streams started so far
    delivered,              \* history: the chunks the running stream passed to sendBack
    doc,                    \* view.state.doc
    selection,              \* view.state.selection: [from, to]
    aiTextStartPosRef,
    lastInsertedLengthRef,
    fullAiTextRef,
    isReplacingSelectionRef,
    originalTextRef,
    uncaught                \* the handler that threw last: "none" or "accept"

machineVars == <<state, ignored, actor, emitted, sessions, delivered>>

editorVars ==
    <<doc, selection, aiTextStartPosRef, lastInsertedLengthRef, fullAiTextRef,
      isReplacingSelectionRef, originalTextRef, uncaught>>

vars == <<machineVars, editorVars>>

\* the slash-command controller, modelled on a paragraph of its own
VARIABLES
    blockText,              \* the text of the paragraph the cursor is in
    cursor,                 \* view.state.selection.from, an empty selection
    slashMenu,              \* slashMenuKey.getState: [active, query, from, to]
    openTimer,              \* the setTimeout of handleKeyDown: the position it opens at
    invoked,                \* the command effect the last step invoked, or "none"
    trigger,                \* history: the trigger that opened the menu, 0 when closed
    rest,                   \* letters of the paragraph after blockText
    above,                  \* paragraphs of the document before the cursor's
    quoted                  \* the cursor's paragraph is in a blockquote

\* what surrounds the text the user edits
surroundings == <<rest, above, quoted>>

slashVars == <<blockText, cursor, slashMenu, openTimer, invoked, trigger, surroundings>>

VARIABLES
    ruleBlock,              \* the block the cursor is in: [type, text, items]
    typed,                  \* history: the keys typed into the block since it was empty
    textAfter               \* the text of the block after the cursor

ruleVars == <<ruleBlock, typed, textAfter>>

VARIABLES
    blocks,                 \* state.doc.content: the top-level blocks
    at,                     \* the text block the cursor is in: [top, kid]
    returned                \* what the last block command returned, or "throws"

blockVars == <<blocks, at, returned>>

VARIABLES
    parsedJsonRef,          \* the payload of the suggestion: [set, content]
    suggestion              \* what the document holds at the suggestion: [text, nodes]

payloadVars == <<parsedJsonRef, suggestion>>

VARIABLES
    documents,              \* DocumentContext: the ids of the documents in the list, in order
    localDoc,               \* the title and content each document has in the list
    remoteDoc,              \* the title and content each document has in Firestore
    pendingUpdates,         \* per document, the updates its debounce timer will write
    deleting,               \* the deleteDocument calls awaiting deleteFirebaseDoc
    activeDocId,
    pendingContentRef,      \* useAutoSave
    lastSavedContentRef,
    saveTimeoutRef,         \* the content the armed debounce timer will save
    documentId,             \* the documentId of the last render of the page
    initialContent          \* the initialContent of the last render of the page

storeVars == <<documents, localDoc, remoteDoc, pendingUpdates, deleting, activeDocId>>
autoSaveVars == <<pendingContentRef, lastSavedContentRef, saveTimeoutRef, documentId, initialContent>>
docVars == <<storeVars, autoSaveVars>>

\* the other parts of the editor, which the AI session leaves alone
otherParts == <<slashVars, ruleVars, blockVars, payloadVars, docVars>>

\* the props LandingPage passes to the Editor
apiText == state.context.generatedText
isStreaming == state.value = "streaming"
isModifying == state.value = "modifying"
hasPendingSuggestion == state.value = "pending"
hasError == state.value = "idle" /\ state.context.error # NoError

\* the Editor state a handler and the streaming effect read and write
EditorNow ==
    [doc |-> doc, from |-> selection.from, to |-> selection.to,
     start |-> aiTextStartPosRef, last |-> lastInsertedLengthRef,
     full |-> fullAiTextRef, replacing |-> isReplacingSelectionRef,
     original |-> originalTextRef, uncaught |-> "none"]

\* the start position tracks every insertion
StartPosMoves(e, insertPos) == insertPos

\* aiTextStartPosRef after an insertion at insertPos: set on the first chunk only
StartPos(e, insertPos) == IF e.start = null THEN insertPos ELSE e.start

\* the streaming effect's insertion: where the text goes, and the Editor after
\* view.dispatch
InsertChunk(e, display) ==
    LET newChunk == RemoveCR(Slice(display, e.last))
        insertPos == IF e.start # null THEN e.start + e.last ELSE e.from
    IN  IF newChunk = <<>> THEN [e EXCEPT !.last = Len(display)]
        ELSE [e EXCEPT !.start = StartPos(e, insertPos),
                       !.doc = InsertText(e.doc, insertPos, newChunk, TRUE),
                       !.from = MapInsert(e.from, insertPos, Len(newChunk)),
                       !.to = MapInsert(e.to, insertPos, Len(newChunk)),
                       !.last = Len(display)]

\* useEffect(..., [apiText]) of the Editor, run with the new apiText
StreamingEffect(text, e) ==
    IF text = <<>> THEN [e EXCEPT !.last = 0, !.full = <<>>]
    ELSE LET display == Trim(text)
             kept == [e EXCEPT !.full = text]
         IN  IF Len(display) > e.last THEN InsertChunk(kept, display) ELSE kept

\* React runs the effect after a render in which apiText changed
AfterRender(old, new, e) == IF new = old THEN e ELSE StreamingEffect(new, e)

SetEditor(e) ==
    /\ doc' = e.doc
    /\ selection' = [from |-> e.from, to |-> e.to]
    /\ aiTextStartPosRef' = e.start
    /\ lastInsertedLengthRef' = e.last
    /\ fullAiTextRef' = e.full
    /\ isReplacingSelectionRef' = e.replacing
    /\ originalTextRef' = e.original
    /\ uncaught' = e.uncaught
    /\ UNCHANGED otherParts

\* slashCommandPlugin state.init
MenuClosed == [active |-> FALSE, query |-> <<>>, from |-> 0, to |-> 0]

\* no zero-delay timer is pending
NoTimer == 0

\* letters the paragraph holds after the cursor when the editor is opened
Rest == 22

SlashInit ==
    /\ blockText = <<>>
    /\ cursor = 1
    /\ slashMenu = MenuClosed
    /\ openTimer = NoTimer
    /\ invoked = "none"
    /\ trigger = 0
    /\ rest = Rest
    /\ above = 0
    /\ quoted = FALSE

\* an empty block of a type, the cursor at its start
EmptyBlock(type) == [type |-> type, text |-> <<>>, items |-> <<>>]

RuleInit ==
    /\ ruleBlock = EmptyBlock("paragraph")
    /\ typed = <<>>
    /\ textAfter = <<>>

\* a paragraph, and a blockquote of paragraphs
P(text) == [type |-> "paragraph", text |-> text, kids |-> <<>>]
Q(kids) == [type |-> "blockquote", text |-> <<>>, kids |-> kids]

BlockInit ==
    /\ blocks = <<P(<<"a">>)>>
    /\ at = [top |-> 1, kid |-> 0]
    /\ returned = "none"

\* parsedJsonRef.current = null
NoPayload == [set |-> FALSE, content |-> <<>>]

PayloadInit ==
    /\ parsedJsonRef = NoPayload
    /\ suggestion = [text |-> <<>>, nodes |-> <<>>]

\* the documents of the user, and no document
Docs == {"d1", "d2"}
NoDoc == "none"

\* a content: the document it was edited in and its version; no content is
\* null and the empty string
Content(d, n) == [by |-> d, n |-> n]
NoContent == [by |-> NoDoc, n |-> 0]

\* a field an update does not carry, and no armed timer
Absent == -1
NoUpdate == [title |-> Absent, content |-> NoContent]

\* the state after the initial load: the documents as stored, the first active
DocInit ==
    /\ documents = <<"d1", "d2">>
    /\ localDoc = [d \in Docs |-> [title |-> 0, content |-> Content(d, 0)]]
    /\ remoteDoc = [d \in Docs |-> [title |-> 0, content |-> Content(d, 0)]]
    /\ pendingUpdates = [d \in Docs |-> NoUpdate]
    /\ deleting = {}
    /\ activeDocId = "d1"
    /\ pendingContentRef = NoContent
    /\ lastSavedContentRef = Content("d1", 0)
    /\ saveTimeoutRef = NoContent
    /\ documentId = "d1"
    /\ initialContent = Content("d1", 0)

OtherPartsInit == SlashInit /\ RuleInit /\ BlockInit /\ PayloadInit /\ DocInit

\* XState starts the invoked actor when its state is entered and stops it
\* (running the callback's cleanup, cancelled = true) when the state is left
ActorAfter(old, new, a) ==
    IF new.value = old.value THEN a
    ELSE IF new.value \in Invoking
         THEN [src |-> ActorOf(new.value), cancelled |-> FALSE]
         ELSE [a EXCEPT !.cancelled = TRUE]

\* an event that starts a stream in the current state
Starts(ev) ==
    LET next == editorMachine(state, ev)
    IN  next.value # state.value /\ next.value \in Invoking

\* send(ev): the machine takes or drops the event, and the Editor (left as e
\* by the calling handler) is rendered with the new snapshot
Send(ev, e) ==
    LET next == editorMachine(state, ev) IN
    /\ Starts(ev) => sessions < MaxSessions
    /\ sessions' = IF Starts(ev) THEN sessions + 1 ELSE sessions
    /\ state' = next
    /\ ignored' = IF next = state THEN ev.type ELSE "none"
    /\ actor' = ActorAfter(state, next, actor)
    /\ delivered' = IF next.value # state.value THEN <<>>
                    ELSE IF ev.type = "AI.CHUNK" THEN delivered \o <<ev.chunk>>
                    ELSE delivered
    /\ SetEditor(AfterRender(state.context.generatedText, next.context.generatedText, e))

Init ==
    /\ state = [value |-> "idle", context |-> InitialContext]
    /\ ignored = "none"
    /\ actor = [src |-> "none", cancelled |-> FALSE]
    /\ emitted = 0
    /\ sessions = 0
    /\ delivered = <<>>
    /\ doc \in InitialDocs
    /\ selection = [from |-> 1, to |-> 1]
    /\ aiTextStartPosRef = null
    /\ lastInsertedLengthRef = 0
    /\ fullAiTextRef = <<>>
    /\ isReplacingSelectionRef = FALSE
    /\ originalTextRef = <<>>
    /\ uncaught = "none"
    /\ OtherPartsInit

\* ------------------------------------------------------------------- actions
\* useEditorAI.handleGenerate without action and selected text (the ControlBar
\* button): GENERATE
HookGenerate ==
    /\ Send([type |-> "GENERATE"], EditorNow)
    /\ UNCHANGED emitted

\* the text an AI command of the menu passes along
CommandTexts == {<<"w">>}

\* useEditorAI.handleGenerate with an action and a text (an AI command of the
\* menu): GENERATE_WITH_ACTION
HookGenerateWithAction ==
    /\ \E text \in CommandTexts :
         Send([type |-> "GENERATE_WITH_ACTION", selectedText |-> text], EditorNow)
    /\ UNCHANGED emitted

\* dispatchTransaction: to - from > MinSelected shows the selection toolbar
MinSelected == 3

\* dispatchTransaction: the selected text the selection toolbar works on
selectedText ==
    IF selection.to - selection.from > MinSelected
    THEN TextBetween(doc, selection.from, selection.to) ELSE <<>>

\* handleSelectionAiAction with the start position set to the end of the
\* selection it deleted
SelectionActionStartsAtEnd ==
    /\ state.value = "idle"
    /\ selectedText # <<>>
    /\ LET from == selection.from
           to == selection.to
       IN  Send([type |-> "GENERATE_WITH_ACTION", selectedText |-> selectedText],
                [EditorNow EXCEPT !.doc = DeleteRange(doc, from, to),
                                  !.from = from, !.to = from,
                                  !.replacing = TRUE, !.original = selectedText,
                                  !.start = to - 1, !.last = 0])
    /\ UNCHANGED emitted

\* Editor.handleSelectionAiAction: a button of the selection toolbar, which is
\* rendered when !isStreaming && !hasPendingSuggestion && selectedText
HandleSelectionAiAction ==
    /\ state.value = "idle"
    /\ selectedText # <<>>
    /\ LET from == selection.from
           to == selection.to
       IN  Send([type |-> "GENERATE_WITH_ACTION", selectedText |-> selectedText],
                [EditorNow EXCEPT !.doc = DeleteRange(doc, from, to),
                                  !.from = from, !.to = from,
                                  !.replacing = TRUE, !.original = selectedText,
                                  !.start = from, !.last = 0])
    /\ UNCHANGED emitted

\* the producer never looks at its flag
ProducerIgnoresFlag(a) == a.src # "none"

\* the producer checks its flag before each chunk: if (cancelled) break
ProducerRuns(a) == a.src # "none" /\ ~a.cancelled

\* the chunks the text service may yield next
NextChunks == {Letters[emitted + 1], Blank}

\* streamingAI / modifyingAI: sendBack({type: "AI.CHUNK", chunk})
AiChunk ==
    /\ ProducerRuns(actor)
    /\ emitted < MaxChunks
    /\ emitted' = emitted + 1
    /\ \E c \in NextChunks : Send([type |-> "AI.CHUNK", chunk |-> c], EditorNow)

\* the stream is exhausted: sendBack({type: "AI.DONE"})
AiDone ==
    /\ ProducerRuns(actor)
    /\ Send([type |-> "AI.DONE"], EditorNow)
    /\ UNCHANGED emitted

\* the stream throws: sendBack({type: "AI.ERROR", error})
AiError ==
    /\ ProducerRuns(actor)
    /\ Send([type |-> "AI.ERROR", error |-> StreamFailure], EditorNow)
    /\ UNCHANGED emitted

\* useEditorAI.handleStop while a stream runs: STOP
HandleStop ==
    /\ state.value \in Invoking
    /\ Send([type |-> "STOP"], EditorNow)
    /\ UNCHANGED emitted

\* the accept / reject / modify toolbar is rendered when showToolbar &&
\* hasPendingSuggestion; showToolbar is set when the session becomes pending
\* with a start position
ToolbarShown == hasPendingSuggestion /\ aiTextStartPosRef # null

\* Editor.handleAccept for a suggestion without JSON payload and without
\* markdown block markers, then useEditorAI.handleAccept: ACCEPT.
\* removeMark throws when endPos lies past the end of the document, and the
\* handler ends there.
HandleAccept ==
    /\ ToolbarShown
    /\ LET startPos == aiTextStartPosRef
           endPos == startPos + Len(fullAiTextRef)
       IN  IF endPos > Len(doc)
           THEN /\ SetEditor([EditorNow EXCEPT !.uncaught = "accept"])
                /\ UNCHANGED machineVars
           ELSE /\ Send([type |-> "ACCEPT"],
                        [EditorNow EXCEPT !.doc = RemoveMark(doc, startPos, endPos),
                                          !.start = null, !.full = <<>>,
                                          !.replacing = FALSE, !.original = <<>>])
                /\ UNCHANGED emitted

\* Editor.handleReject, then useEditorAI.handleReject: REJECT
HandleReject ==
    /\ ToolbarShown
    /\ LET startPos == aiTextStartPosRef
           endPos == Len(doc) - 1
           deleted == DeleteRange(doc, startPos, endPos)
           restore == isReplacingSelectionRef /\ originalTextRef # <<>>
           n == IF restore THEN Len(originalTextRef) ELSE 0
       IN  Send([type |-> "REJECT"],
                [EditorNow EXCEPT
                    !.doc = IF restore
                            THEN InsertText(deleted, startPos, originalTextRef, FALSE)
                            ELSE deleted,
                    !.from = MapInsert(MapDelete(selection.from, startPos, endPos), startPos, n),
                    !.to = MapInsert(MapDelete(selection.to, startPos, endPos), startPos, n),
                    !.start = null, !.last = 0, !.full = <<>>,
                    !.replacing = FALSE, !.original = <<>>])
    /\ UNCHANGED emitted

\* Editor.handleModify, then useEditorAI.handleModify: MODIFY
HandleModify ==
    /\ ToolbarShown
    /\ LET startPos == aiTextStartPosRef
           endPos == Len(doc) - 1
       IN  Send([type |-> "MODIFY"],
                [EditorNow EXCEPT
                    !.doc = DeleteRange(doc, startPos, endPos),
                    !.from = MapDelete(selection.from, startPos, endPos),
                    !.to = MapDelete(selection.to, startPos, endPos),
                    !.last = 0])
    /\ UNCHANGED emitted

\* the selections the user makes: the cursor at the start or at the end of the
\* paragraph, or the shortest range from its start that shows the selection
\* toolbar
Selections(d) ==
    { r \in { [from |-> 1, to |-> 1],
              [from |-> BlockEnd(d), to |-> BlockEnd(d)],
              [from |-> 1, to |-> 1 + MinSelected + 1] } : r.to <= BlockEnd(d) }

\* the user clicks or drags in the paragraph before asking for a suggestion
UserSelect ==
    /\ state.value = "idle"
    /\ \E r \in Selections(doc) :
         /\ r # selection
         /\ SetEditor([EditorNow EXCEPT !.from = r.from, !.to = r.to])
    /\ UNCHANGED machineVars

\* the user clicks at the start of the paragraph and types a character
UserType ==
    /\ \E c \in TypedChars :
         /\ \A i \in 1..Len(doc) : doc[i].ch # c
         /\ SetEditor([EditorNow EXCEPT !.doc = InsertText(doc, 1, <<c>>, MarksAt(doc, 1)),
                                        !.from = 2, !.to = 2])
    /\ UNCHANGED machineVars

Next ==
    \/ HookGenerate
    \/ HookGenerateWithAction
    \/ HandleSelectionAiAction
    \/ AiChunk
    \/ AiDone
    \/ AiError
    \/ HandleStop
    \/ HandleAccept
    \/ HandleReject
    \/ HandleModify
    \/ UserSelect
    \/ UserType

Spec == Init /\ [][Next]_vars

\* ------------------------------------------------------------- well-formedness
\* the document stays one paragraph, and the positions the handlers compute
\* with stay inside it
TypeOK ==
    /\ state.value \in {"idle", "streaming", "pending", "modifying"}
    /\ Len(doc) >= 2 /\ doc[1] = Open /\ doc[Len(doc)] = Close
    /\ \A i \in 2..(Len(doc) - 1) : IsChar(doc[i])
    /\ selection.from \in 1..BlockEnd(doc)
    /\ selection.to \in selection.from..BlockEnd(doc)
    /\ aiTextStartPosRef # null =>
         /\ aiTextStartPosRef >= 1
         /\ aiTextStartPosRef + lastInsertedLengthRef <= BlockEnd(doc)
    /\ uncaught \in {"none", "accept"}

\* -------------------------------------------------------------------- claims
\* the provisional (em-marked) text of the document
Provisional(d) == MarkedBetween(d, 0, Len(d))

\* the text of the document
Text(d) == TextBetween(d, 0, Len(d))

\* C1: while the session is streaming, pending or modifying, a generate request
\* (GENERATE or GENERATE_WITH_ACTION) is dropped: the status and the context
\* stay as they are, the running stream actor is left alone and no stream is
\* started.
C1_GenerateRejectedWhileBusy ==
    [][(HookGenerate \/ HookGenerateWithAction) /\ state.value # "idle"
         => /\ state' = state
            /\ actor' = actor
            /\ sessions' = sessions
            /\ emitted' = emitted]_vars

\* C1: a generate request was dropped while a finished suggestion is pending
C1_Witness ==
    /\ ignored \in GenerateEvents
    /\ state.value = "pending"
    /\ state.context.pendingSuggestion # <<>>

C3_StopRemovesInserted == [][HandleStop => Provisional(doc') = <<>>]_vars

\* C4 as stated: when the stream fails while streaming or modifying, the
\* session ends in idle with an error that is shown (hasError), and the
\* document holds no provisional text.
C4_ErrorRollsBack ==
    [][AiError
         => /\ state'.value = "idle"
            /\ state'.context.error # NoError
            /\ Provisional(doc') = <<>>]_vars

\* C5: leaving streaming or modifying by STOP cancels the stream actor, and
\* while the actor stays cancelled (no generate or modify request has started
\* a new stream) no chunk is delivered, generatedText does not grow, and the
\* streaming effect adds no provisional text to the document.
C5_NoChunkAfterStop ==
    /\ [][HandleStop => actor'.cancelled]_vars
    /\ [][actor.cancelled /\ actor'.cancelled
            => /\ emitted' = emitted
               /\ state'.context.generatedText \in {state.context.generatedText, <<>>}
               /\ lastInsertedLengthRef' <= lastInsertedLengthRef
               /\ UserType \/ Len(Provisional(doc')) <= Len(Provisional(doc))]_vars

\* C5: the session is idle after a STOP that came between two chunks: text was
\* streamed, and the stream had more to give
C5_Witness ==
    /\ state.value = "idle"
    /\ actor = [src |-> "streamingAI", cancelled |-> TRUE]
    /\ state.context.generatedText # <<>>
    /\ state.context.error = NoError
    /\ emitted < MaxChunks

\* C6 as stated: reject deletes exactly the suggestion span
\* [start, start + length of the inserted text) and leaves what is before and
\* after it (a suggestion that did not replace a selection).
C6_RejectDeletesSpan ==
    [][HandleReject /\ ~isReplacingSelectionRef
         => doc' = DeleteRange(doc, aiTextStartPosRef,
                               aiTextStartPosRef + lastInsertedLengthRef)]_vars

\* C7 as stated: reject of a suggestion that replaced a selection puts the
\* selected text back in place of the suggestion, so the document reads as it
\* did when the generation was requested (nothing was typed since).
C7_RejectRestoresSelection ==
    [][HandleReject /\ isReplacingSelectionRef /\ originalTextRef # <<>>
         /\ (\A i \in 1..Len(doc) : doc[i].ch \notin TypedChars)
         => Text(doc') =
              TextBetween(doc, 0, aiTextStartPosRef) \o originalTextRef
                \o TextBetween(doc, aiTextStartPosRef + lastInsertedLengthRef, Len(doc))]_vars

\* C8 as stated: accept of a suggestion without payload and without markdown
\* markers leaves the text of the document as it is and removes the
\* provisional mark from the whole suggestion, the span of the inserted text
\* from the start position.
C8_AcceptUnmarks ==
    [][HandleAccept
         => /\ Text(doc') = Text(doc)
            /\ MarkedBetween(doc', aiTextStartPosRef,
                              aiTextStartPosRef + lastInsertedLengthRef) = <<>>]_vars

\* C9 as stated: after a chunk has been applied, the provisional text is the
\* concatenation of the chunks delivered so far (generatedText), in one
\* contiguous range that starts at the start position.
C9_ChunksInOrder ==
    [][AiChunk
         => /\ aiTextStartPosRef' # null
            /\ aiTextStartPosRef' + Len(state'.context.generatedText) <= BlockEnd(doc')
            /\ \A i \in 1..Len(state'.context.generatedText) :
                 doc'[aiTextStartPosRef' + i] = Cell(state'.context.generatedText[i], TRUE)]_vars

\* C10: the step that inserts the first characters of a stream leaves the
\* start position at the first of them (the cursor, when no start position was
\* set), and a start position that is set keeps its value in every step but
\* the accept or reject that ends the session and the selection action that
\* starts another one: through every later chunk and through modify.
C10_StartPositionFixed ==
    /\ [][lastInsertedLengthRef = 0 /\ lastInsertedLengthRef' > 0
            => /\ aiTextStartPosRef' # null
               /\ doc'[aiTextStartPosRef' + 1].em
               /\ aiTextStartPosRef = null => aiTextStartPosRef' = selection.from]_vars
    /\ [][aiTextStartPosRef # null
            /\ ~(state.value = "pending" /\ state'.value = "idle")
            /\ ~HandleSelectionAiAction
            => aiTextStartPosRef' = aiTextStartPosRef]_vars

\* C10: a chunk has been inserted after modify (pendingSuggestion holds the
\* text of the stream before it)
C10_Witness ==
    /\ state.value = "modifying"
    /\ state.context.pendingSuggestion # <<>>
    /\ lastInsertedLengthRef > 0
    /\ aiTextStartPosRef # null

\* C11 as stated: when the user inserts text before the insertion point while a
\* suggestion is streaming or pending, the start position is mapped through
\* the edit (it moves by the length of the typed text).
C11_StartPositionMapped ==
    [][UserType /\ state.value # "idle" /\ aiTextStartPosRef > 1
         => aiTextStartPosRef' = MapInsert(aiTextStartPosRef, 1, 1)]_vars

\* ------------------------------------------------- reject outside a session
\* Editor.handleReject, then useEditorAI.handleReject, run while the session is
\* idle (the toolbar button that calls it is rendered in pending only): the
\* handler itself tests nothing but aiTextStartPosRef
RejectWhenIdle ==
    /\ state.value = "idle"
    /\ LET startPos == aiTextStartPosRef
           endPos == Len(doc) - 1
           deleted == DeleteRange(doc, startPos, endPos)
           restore == isReplacingSelectionRef /\ originalTextRef # <<>>
           n == IF restore THEN Len(originalTextRef) ELSE 0
           cleared == [EditorNow EXCEPT !.start = null, !.last = 0, !.full = <<>>,
                                        !.replacing = FALSE, !.original = <<>>]
       IN  Send([type |-> "REJECT"],
                IF startPos = null THEN cleared
                ELSE [cleared EXCEPT
                        !.doc = IF restore
                                THEN InsertText(deleted, startPos, originalTextRef, FALSE)
                                ELSE deleted,
                        !.from = MapInsert(MapDelete(selection.from, startPos, endPos), startPos, n),
                        !.to = MapInsert(MapDelete(selection.to, startPos, endPos), startPos, n)])
    /\ UNCHANGED emitted

NextApi == Next \/ RejectWhenIdle

\* the session with its handlers callable whatever the toolbar shows
SpecApi == Init /\ [][NextApi]_vars

SpanEnd == aiTextStartPosRef + lastInsertedLengthRef

\* C23 as stated: modify in pending deletes exactly the suggestion span and
\* leaves every other part of the document as it is, keeps the start position
\* and moves the session to modifying.
C23_ModifyDeletesSpan ==
    [][HandleModify
         => /\ doc' = DeleteRange(doc, aiTextStartPosRef, SpanEnd)
            /\ aiTextStartPosRef' = aiTextStartPosRef
            /\ state'.value = "modifying"]_vars

\* C24 as stated: after an accept that ran to its end, or a reject, from
\* pending the session is idle and all its state is cleared: generatedText and
\* pendingSuggestion are empty, the start position and the inserted length are
\* unset, and the selectedText of the context is discarded.
C24_SessionCleared ==
    [][(HandleAccept /\ uncaught' = "none") \/ HandleReject
         => /\ state'.value = "idle"
            /\ state'.context.generatedText = <<>>
            /\ state'.context.pendingSuggestion = <<>>
            /\ aiTextStartPosRef' = null
            /\ lastInsertedLengthRef' = 0
            /\ state'.context.selectedText = <<>>]_vars

\* C26 as stated: accept operates on exactly the span
\* [start, start + inserted length): the length it uses is the number of
\* provisional characters the streaming effect inserted, and no character
\* outside the span is deleted, replaced or has its marks changed.
C26_AcceptUsesInsertedLength ==
    [][HandleAccept
         => /\ Len(fullAiTextRef) = lastInsertedLengthRef
            /\ Len(doc') = Len(doc)
            /\ \A i \in 1..Len(doc) :
                 (i <= aiTextStartPosRef \/ i > SpanEnd) => doc'[i] = doc[i]]_vars

\* C27: a generation invoked over a selection deletes the selected text in the
\* step that requests it (no chunk is in the document yet), sets the start
\* position to the deletion point, the start of the selection, where the
\* first chunk then goes, and keeps the original text until the accept or
\* reject that ends the session.
C27_SelectionReplacedFirst ==
    /\ [][HandleSelectionAiAction
            => /\ selection.to > selection.from
               /\ doc' = DeleteRange(doc, selection.from, selection.to)
               /\ aiTextStartPosRef' = selection.from
               /\ lastInsertedLengthRef' = 0
               /\ isReplacingSelectionRef'
               /\ originalTextRef' = TextBetween(doc, selection.from, selection.to)
               /\ emitted' = emitted]_vars
    /\ [][isReplacingSelectionRef /\ lastInsertedLengthRef = 0 /\ lastInsertedLengthRef' > 0
            => /\ aiTextStartPosRef' = aiTextStartPosRef
               /\ doc'[aiTextStartPosRef + 1].em
               /\ aiTextStartPosRef <= BlockEnd(doc)]_vars
    /\ [][isReplacingSelectionRef /\ ~(HandleAccept \/ HandleReject)
            => /\ isReplacingSelectionRef'
               /\ originalTextRef' = originalTextRef]_vars

\* C27: a suggestion that replaced a selection is pending, its text in the
\* document from the deletion point, the original text still kept
C27_Witness ==
    /\ state.value = "pending"
    /\ isReplacingSelectionRef
    /\ originalTextRef # <<>>
    /\ lastInsertedLengthRef > 0
    /\ aiTextStartPosRef = 1
    /\ doc[2].em

\* --------------------------------------------- a stream that runs to its end
\* the steps of a session whose stream is neither stopped nor failing
NextToEnd ==
    \/ HookGenerate
    \/ HookGenerateWithAction
    \/ HandleSelectionAiAction
    \/ AiChunk
    \/ AiDone
    \/ HandleAccept
    \/ HandleReject
    \/ HandleModify
    \/ UserSelect
    \/ UserType

\* the callback actor runs on the event loop: once its source is exhausted it
\* sends AI.DONE, unless it was cancelled before
SpecToEnd == Init /\ [][NextToEnd]_vars /\ WF_vars(AiDone)

\* C25: a session in streaming or modifying whose stream is not stopped and
\* does not fail reaches pending, and the step that takes it there sets
\* pendingSuggestion to the concatenation of the chunks the stream delivered.
C25_StreamEndsPending ==
    /\ (state.value \in Invoking) ~> (state.value = "pending")
    /\ [][AiDone
            => /\ state'.value = "pending"
               /\ state'.context.pendingSuggestion = delivered]_vars

\* C25: a stream that delivered two chunks has ended, and the suggestion is
\* pending with both of them
C25_Witness ==
    /\ state.value = "pending"
    /\ Len(state.context.pendingSuggestion) = 2
    /\ actor.cancelled
    /\ state.context.error = NoError

\* C35 as stated: whenever the session is pending, pendingSuggestion equals
\* generatedText, whichever way pending was entered.
C35_PendingIsGenerated ==
    state.value = "pending" => state.context.pendingSuggestion = state.context.generatedText

\* C34 as stated: the step that inserts the first characters of a session
\* started by GENERATE (from idle, without a selection) puts them at the
\* cursor of that moment and records that position as the start, however the
\* session before it ended.
C34_FirstChunkAtCursor ==
    [][AiChunk /\ state.value = "streaming"
         /\ lastInsertedLengthRef = 0 /\ lastInsertedLengthRef' > 0
         => /\ aiTextStartPosRef' = selection.from
            /\ doc'[selection.from + 1].em
            /\ Len(doc') = Len(doc) + lastInsertedLengthRef'
            /\ \A i \in 1..selection.from : doc'[i] = doc[i]]_vars

\* ------------------------------------------------- slash-command controller
\* characters the paragraph holds at most
MaxText == 4

\* the keys the user types: the trigger, a blank, a letter
Slash == "/"
Keys == {Slash, Blank, "t"}

\* $pos.parent.textBetween(0, $pos.parentOffset): the text before a position
TextBefore(text, pos) == SubSeq(text, 1, pos - 1)

\* String.prototype.lastIndexOf: the 0-based index of the last c, or -1
LastIndexOf(str, c) ==
    LET found == {i \in 1..Len(str) : str[i] = c}
    IN  IF found = {} THEN -1 ELSE (CHOOSE i \in found : \A j \in found : j <= i) - 1

\* String.prototype.includes
Includes(str, c) == \E i \in 1..Len(str) : str[i] = c

\* the cursor may sit this far behind the range before the menu closes
Slack == 20

\* apply for a transaction that changed the document, without the test for a
\* blank in the query
ApplyDocChangeKeepsBlank(prev, text, pos) ==
    IF ~prev.active THEN prev
    ELSE LET textBefore == TextBefore(text, pos)
             slashIndex == LastIndexOf(textBefore, Slash)
             query == Slice(textBefore, slashIndex + 1)
         IN  IF slashIndex = -1 THEN MenuClosed
             ELSE [active |-> TRUE, query |-> query, from |-> 1 + slashIndex, to |-> pos]

\* apply for a transaction that changed the document, the cursor now at pos
ApplyDocChange(prev, text, pos) ==
    IF ~prev.active THEN prev
    ELSE LET textBefore == TextBefore(text, pos)
             slashIndex == LastIndexOf(textBefore, Slash)
             query == Slice(textBefore, slashIndex + 1)
         IN  IF slashIndex = -1 THEN MenuClosed
             ELSE IF Includes(query, Blank) THEN MenuClosed
             ELSE [active |-> TRUE, query |-> query, from |-> 1 + slashIndex, to |-> pos]

\* apply for a transaction that only moved the cursor, the slack counted from
\* the start of the range
ApplySelectionFromStart(prev, pos) ==
    IF prev.active /\ (pos < prev.from \/ pos > prev.from + Slack) THEN MenuClosed ELSE prev

\* apply for a transaction that only moved the cursor
ApplySelection(prev, pos) ==
    IF prev.active /\ (pos < prev.from \/ pos > prev.to + Slack) THEN MenuClosed ELSE prev

\* every position opens the menu
AnyPosition(text, pos) == TRUE

\* handleKeyDown: isValidPosition, at the start of the block or after a blank
IsValidPosition(text, pos) ==
    pos = 1 \/ TextBefore(text, pos)[pos - 1] = Blank

\* the text with key typed at pos
Typed(text, pos, key) == SubSeq(text, 1, pos - 1) \o <<key>> \o SubSeq(text, pos, Len(text))

\* history: where the trigger character that opened the menu now stands, 0
\* while the menu is closed
Recorded(menu, pos) == IF menu.active THEN pos ELSE 0

\* what the controller leaves alone
notSlash == <<vars, ruleVars, blockVars, payloadVars, docVars>>

\* the zero-delay timer runs before the next input event is handled
TimerDone == openTimer = NoTimer

\* the "/" key: handleKeyDown schedules the opening at a valid position, then
\* the character is inserted and the transaction applied
KeySlash ==
    /\ TimerDone
    /\ Len(blockText) < MaxText
    /\ cursor <= Len(blockText) + 1
    /\ blockText' = Typed(blockText, cursor, Slash)
    /\ cursor' = cursor + 1
    /\ slashMenu' = ApplyDocChange(slashMenu, blockText', cursor')
    /\ openTimer' = IF IsValidPosition(blockText, cursor) THEN cursor ELSE NoTimer
    /\ trigger' = Recorded(slashMenu', MapInsert(trigger, cursor, 1))
    /\ invoked' = "none"
    /\ UNCHANGED <<surroundings, notSlash>>

\* any other key that types a character
KeyChar ==
    /\ TimerDone
    /\ Len(blockText) < MaxText
    /\ cursor <= Len(blockText) + 1
    /\ \E key \in Keys \ {Slash} :
         blockText' = Typed(blockText, cursor, key)
    /\ cursor' = cursor + 1
    /\ slashMenu' = ApplyDocChange(slashMenu, blockText', cursor')
    /\ trigger' = Recorded(slashMenu', MapInsert(trigger, cursor, 1))
    /\ invoked' = "none"
    /\ UNCHANGED <<openTimer, surroundings, notSlash>>

\* Backspace deletes the character before the cursor
Backspace ==
    /\ TimerDone
    /\ cursor > 1
    /\ cursor <= Len(blockText) + 1
    /\ blockText' = SubSeq(blockText, 1, cursor - 2) \o SubSeq(blockText, cursor, Len(blockText))
    /\ cursor' = cursor - 1
    /\ slashMenu' = ApplyDocChange(slashMenu, blockText', cursor')
    /\ trigger' = Recorded(slashMenu', IF trigger = cursor - 1 THEN 0
                                        ELSE MapDelete(trigger, cursor - 1, cursor))
    /\ invoked' = "none"
    /\ UNCHANGED <<openTimer, surroundings, notSlash>>

\* an arrow key or a click moves the cursor inside the paragraph
MoveCursor ==
    /\ TimerDone
    /\ \E pos \in {cursor - 1, cursor + 1} :
         /\ pos \in 1..(Len(blockText) + 1 + rest)
         /\ cursor' = pos
    /\ slashMenu' = ApplySelection(slashMenu, cursor')
    /\ trigger' = Recorded(slashMenu', trigger)
    /\ invoked' = "none"
    /\ UNCHANGED <<blockText, openTimer, surroundings, notSlash>>

\* the timer of handleKeyDown fires: setMeta(slashMenuKey, newState)
OpenMenu ==
    /\ openTimer # NoTimer
    /\ slashMenu' = [active |-> TRUE, query |-> <<>>, from |-> openTimer, to |-> openTimer + 1]
    /\ openTimer' = NoTimer
    /\ trigger' = openTimer
    /\ invoked' = "none"
    /\ UNCHANGED <<blockText, cursor, surroundings, notSlash>>

\* a click outside the menu: SlashMenu.handleClickOutside calls onClose, which
\* is closeSlashMenu(view, false)
CloseMenu ==
    /\ TimerDone
    /\ slashMenu.active
    /\ slashMenu' = MenuClosed
    /\ trigger' = 0
    /\ invoked' = "none"
    /\ UNCHANGED <<blockText, cursor, openTimer, surroundings, notSlash>>

\* a click on a command of the menu: handleBlockSelect calls
\* closeSlashMenu(view, true), which closes the controller and deletes
\* [from, to), and then invokes the command
SelectCommand ==
    /\ TimerDone
    /\ slashMenu.active
    /\ slashMenu' = MenuClosed
    /\ blockText' = SubSeq(blockText, 1, slashMenu.from - 1)
                       \o SubSeq(blockText, slashMenu.to, Len(blockText))
    /\ cursor' = MapDelete(cursor, slashMenu.from, slashMenu.to)
    /\ trigger' = 0
    /\ invoked' = "command"
    /\ UNCHANGED <<openTimer, surroundings, notSlash>>

\* paragraphs the Enter and Escape keys add above the cursor at most
MaxAbove == 2

\* "> " typed at the start of a top-level paragraph while the menu is closed:
\* the blockquote input rule wraps the paragraph
WrapQuote ==
    /\ TimerDone
    /\ ~slashMenu.active
    /\ cursor = 1
    /\ ~quoted
    /\ quoted' = TRUE
    /\ invoked' = "none"
    /\ UNCHANGED <<blockText, cursor, slashMenu, openTimer, trigger, rest, above, notSlash>>

\* the Enter key. The keymaps come before the slash-command plugin in
\* state.plugins, so baseKeymap's Enter takes the key: liftEmptyBlock lifts an
\* empty paragraph out of its blockquote, splitBlock splits any other
\* paragraph at the cursor, and handleKeyDown of the plugin is not called. The
\* document change closes an active menu (no "/" before the cursor). The
\* keydown listener of SlashMenu on the document runs its onSelect when the
\* menu was open and has not been rendered closed by then: closeSlashMenu
\* finds the controller inactive and deletes nothing, and the command runs.
KeyEnter ==
    /\ TimerDone
    /\ cursor <= Len(blockText) + 1
    /\ LET lift == quoted /\ blockText = <<>> /\ rest = 0
       IN  /\ ~lift => above < MaxAbove
           /\ blockText' = IF lift THEN blockText ELSE SubSeq(blockText, cursor, Len(blockText))
           /\ above' = IF lift THEN above ELSE above + 1
           /\ quoted' = IF lift THEN FALSE ELSE quoted
    /\ cursor' = 1
    /\ slashMenu' = ApplyDocChange(slashMenu, blockText', cursor')
    /\ trigger' = 0
    /\ invoked' \in (IF slashMenu.active THEN {"none", "command"} ELSE {"none"})
    /\ UNCHANGED <<openTimer, rest, notSlash>>

\* the Escape key. The first keymap binds Escape to exitBlock, which in a
\* blockquote inserts a paragraph after it and moves the cursor there; the
\* document change closes an active menu. In a top-level paragraph exitBlock
\* returns false and handleKeyDown of the plugin closes the menu.
KeyEscape ==
    /\ TimerDone
    /\ quoted \/ slashMenu.active
    /\ quoted => above < MaxAbove
    /\ blockText' = IF quoted THEN <<>> ELSE blockText
    /\ cursor' = IF quoted THEN 1 ELSE cursor
    /\ rest' = IF quoted THEN 0 ELSE rest
    /\ above' = IF quoted THEN above + 1 ELSE above
    /\ quoted' = FALSE
    /\ slashMenu' = IF quoted THEN ApplyDocChange(slashMenu, blockText', cursor') ELSE MenuClosed
    /\ trigger' = 0
    /\ invoked' = "none"
    /\ UNCHANGED <<openTimer, notSlash>>

SlashNext ==
    \/ KeySlash
    \/ KeyChar
    \/ Backspace
    \/ MoveCursor
    \/ OpenMenu
    \/ CloseMenu
    \/ SelectCommand
    \/ WrapQuote
    \/ KeyEnter
    \/ KeyEscape

SlashSpec == Init /\ [][SlashNext]_slashVars

\* the recorded range lies in the paragraph and the cursor is a position of it
SlashTypeOK ==
    /\ cursor \in 1..(Len(blockText) + 1 + rest)
    /\ Len(blockText) <= MaxText
    /\ above \in 0..MaxAbove
    /\ slashMenu.active => 1 <= slashMenu.from /\ slashMenu.from < slashMenu.to
                             /\ slashMenu.to <= Len(blockText) + 1

\* C13: the menu becomes active only with the trigger character at the recorded
\* position, at the start of the block or directly after a blank; a "/" typed
\* at any other position while the menu is closed is inserted as text, leaves
\* the controller state as it is and schedules no opening.
C13_OpensOnlyAtValidPosition ==
    /\ [][~slashMenu.active /\ slashMenu'.active
            => /\ blockText'[slashMenu'.from] = Slash
               /\ slashMenu'.from = 1 \/ blockText'[slashMenu'.from - 1] = Blank]_slashVars
    /\ [][KeySlash /\ ~slashMenu.active /\ cursor > 1 /\ blockText[cursor - 1] # Blank
            => /\ slashMenu' = slashMenu
               /\ openTimer' = NoTimer
               /\ blockText' = Typed(blockText, cursor, Slash)]_slashVars

\* C13: a "/" was typed after a letter and the menu is closed
C13_Witness ==
    /\ blockText = <<"t", Slash>>
    /\ cursor = 3
    /\ ~slashMenu.active
    /\ openTimer = NoTimer

\* C14 as stated: while the menu is active, after a document change the range
\* still starts at the recorded trigger position and the query is the text
\* between that position and the cursor.
C14_QueryFromTrigger ==
    [][(KeySlash \/ KeyChar \/ Backspace) /\ slashMenu.active /\ slashMenu'.active
         => /\ slashMenu'.from = trigger'
            /\ slashMenu'.query = SubSeq(blockText', trigger' + 1, cursor' - 1)]_slashVars

\* C15 as stated: while the menu is active, a typed character after which the
\* text between the recorded trigger and the cursor holds a blank, or after
\* which no trigger character is found before the cursor, closes the menu
\* without invoking a command.
C15_AbandonedOnBlankOrLostTrigger ==
    [][KeyChar /\ slashMenu.active /\ trigger > 0
         /\ (\/ Includes(SubSeq(blockText', MapInsert(trigger, cursor, 1), cursor' - 1), Blank)
             \/ ~Includes(TextBefore(blockText', cursor'), Slash))
         => ~slashMenu'.active /\ invoked' = "none"]_slashVars

\* C16 as stated: selecting a command closes the controller, deletes the range
\* that starts at the recorded trigger character and holds the query typed
\* after it, and nothing else, and invokes the command.
C16_CommitDeletesTriggerRange ==
    [][SelectCommand
         => /\ ~slashMenu'.active
            /\ invoked' = "command"
            /\ blockText' = SubSeq(blockText, 1, trigger - 1)
                                \o SubSeq(blockText, slashMenu.to, Len(blockText))]_slashVars

\* C21 as stated: while the menu is active, Enter selects the highlighted
\* command and the editor does not handle the key: the menu closes, the
\* command is invoked, and the only change to the document is the deletion of
\* the recorded range (no paragraph is split, nothing is lifted).
C21_EnterSelectsOnly ==
    [][KeyEnter /\ slashMenu.active
         => /\ ~slashMenu'.active
            /\ invoked' = "command"
            /\ surroundings' = surroundings
            /\ blockText' = SubSeq(blockText, 1, slashMenu.from - 1)
                                \o SubSeq(blockText, slashMenu.to, Len(blockText))]_slashVars

\* C22 as stated: while the menu is active, Escape closes the menu and does
\* nothing else: the text, the cursor and the blocks around it are unchanged
\* (exit-block is not run) and no command is invoked.
C22_EscapeOnlyCloses ==
    [][KeyEscape /\ slashMenu.active
         => /\ ~slashMenu'.active
            /\ invoked' = "none"
            /\ blockText' = blockText
            /\ cursor' = cursor
            /\ surroundings' = surroundings]_slashVars

\* C28 as stated: when only the cursor moves while the menu is active, the
\* menu closes if and only if the cursor is outside
\* [recorded start, recorded start + Slack].
C28_ClosesOutsideStartSlack ==
    [][MoveCursor /\ slashMenu.active
         => (~slashMenu'.active
               <=> (cursor' < slashMenu.from \/ cursor' > slashMenu.from + Slack))]_slashVars

\* C28 amended: when only the cursor moves while the menu is active, the menu
\* closes if and only if the cursor is before the recorded start or more than
\* Slack positions past the recorded end of the range; a menu that stays open
\* keeps its state.
C28_ClosesOutsideRangeSlack ==
    [][MoveCursor /\ slashMenu.active
         => /\ ~slashMenu'.active
                 <=> (cursor' < slashMenu.from \/ cursor' > slashMenu.to + Slack)
            /\ slashMenu'.active => slashMenu' = slashMenu]_slashVars

\* C28: the menu is still open with the cursor more than Slack positions past
\* the recorded start, at the last position that keeps it open
C28_Witness ==
    /\ slashMenu.active
    /\ cursor > slashMenu.from + Slack
    /\ cursor = slashMenu.to + Slack

MaxTyped == 6

\* the keys the user types, and the dash the emDash rule writes
RuleKeys == {"-", Blank, "[", "]", "x", "+"}
LongDash == "em"

\* the blocks that hold text; input rules do not run where spec.code is set
TextBlocks == {"paragraph", "heading", "code_block"}
CodeBlocks == {"code_block"}

\* emDash: /--$/
emDash(text) ==
    Len(text) >= 2 /\ text[Len(text)] = "-" /\ text[Len(text) - 1] = "-"

\* /^-\s\[\s\]\s$/
taskListRule(text) == text = <<"-", Blank, "[", Blank, "]", Blank>>

\* /^-\s\[x\]\s$/i
checkedTaskRule(text) == text = <<"-", Blank, "[", "x", "]", Blank>>

\* a bullet rule that takes the dash as a marker too
dashBulletListRule(text) ==
    /\ Len(text) >= 2
    /\ text[Len(text)] = Blank
    /\ text[Len(text) - 1] \in {"-", "+", "*"}
    /\ \A i \in 1..(Len(text) - 2) : text[i] = Blank

\* /^\s*([+*])\s$/
bulletListRule(text) ==
    /\ Len(text) >= 2
    /\ text[Len(text)] = Blank
    /\ text[Len(text) - 1] \in {"+", "*"}
    /\ \A i \in 1..(Len(text) - 2) : text[i] = Blank

\* /^([-*_]){3,}\s$/
horizontalRule(text) ==
    /\ Len(text) >= 4
    /\ text[Len(text)] = Blank
    /\ \A i \in 1..(Len(text) - 1) : text[i] \in {"-", "*", "_"}

\* buildInputRules: the rules in the order they are pushed
rules == <<"emDash", "taskList", "checkedTask", "bulletList", "horizontalRule">>

\* the rule matches the text before the cursor and its handler returns a
\* transaction; a heading cannot be wrapped in a list item
Fires(rule, block, text) ==
    CASE rule = "emDash" -> emDash(text)
      [] rule = "taskList" -> taskListRule(text)
      [] rule = "checkedTask" -> checkedTaskRule(text)
      [] rule = "bulletList" -> bulletListRule(text) /\ block.type = "paragraph"
      [] rule = "horizontalRule" -> horizontalRule(text)

\* the block after the handler of a rule
Rewrite(rule, block, text) ==
    CASE rule = "emDash" ->
            [block EXCEPT !.text = SubSeq(text, 1, Len(text) - 2) \o <<LongDash>>]
      [] rule = "taskList" -> [type |-> "task_list", text |-> <<>>, items |-> <<FALSE>>]
      [] rule = "checkedTask" -> [type |-> "task_list", text |-> <<>>, items |-> <<TRUE>>]
      [] rule = "bulletList" -> [type |-> "bullet_list", text |-> <<>>, items |-> <<>>]
      [] rule = "horizontalRule" -> [type |-> "horizontal_rule", text |-> <<>>, items |-> <<>>]

\* inputRules({ rules }): the first rule that fires wins, and the key is
\* inserted as text when none does or when the block is code
InputRules(block, key) ==
    LET textBefore == block.text \o <<key>>
        firing == {i \in 1..Len(rules) : Fires(rules[i], block, textBefore)}
    IN  IF block.type \in CodeBlocks \/ firing = {}
        THEN [block EXCEPT !.text = textBefore]
        ELSE Rewrite(rules[CHOOSE i \in firing : \A j \in firing : i <= j], block, textBefore)

\* the text after the cursor once a key was typed: a handler that replaces
\* blockStart - 1 .. blockEnd + 1 replaces the whole block, the text after the
\* cursor included; emDash and the wrapping rule replace the match only
FollowingText(block, key, following) ==
    LET textBefore == block.text \o <<key>>
        firing == {i \in 1..Len(rules) : Fires(rules[i], block, textBefore)}
        first == rules[CHOOSE i \in firing : \A j \in firing : i <= j]
    IN  IF block.type \in CodeBlocks \/ firing = {} THEN following
        ELSE IF first \in {"taskList", "checkedTask", "horizontalRule"} THEN <<>>
        ELSE following

\* what typing into the block leaves alone
notRules == <<vars, slashVars, blockVars, payloadVars, docVars>>

\* a key typed at the end of the text of the block
TypeKey ==
    /\ ruleBlock.type \in TextBlocks
    /\ Len(typed) < MaxTyped
    /\ \E key \in RuleKeys :
         /\ ruleBlock' = InputRules(ruleBlock, key)
         /\ typed' = Append(typed, key)
         /\ textAfter' = FollowingText(ruleBlock, key, textAfter)
    /\ UNCHANGED notRules

\* the cursor is put at the start of another, empty block
NewBlock ==
    /\ \E type \in TextBlocks : ruleBlock' = EmptyBlock(type)
    /\ typed' = <<>>
    /\ textAfter' = <<>>
    /\ UNCHANGED notRules

\* the cursor is put at the start of a block that has text
CursorToStart ==
    /\ \E type \in TextBlocks : ruleBlock' = EmptyBlock(type)
    /\ typed' = <<>>
    /\ textAfter' = <<"a">>
    /\ UNCHANGED notRules

RuleNext ==
    \/ TypeKey
    \/ NewBlock

RuleSpec == Init /\ [][RuleNext]_ruleVars

\* typing in front of text as well
RuleNextInText ==
    \/ TypeKey
    \/ NewBlock
    \/ CursorToStart

RuleSpecInText == Init /\ [][RuleNextInText]_ruleVars

\* the keys of "- [ ] "
TaskInput == <<"-", Blank, "[", Blank, "]", Blank>>

\* C17, amended: the keys of "- [ ] " typed at the start of a block that is not
\* a code block never make a bullet list on the way, and once all are typed
\* the block is a task list with exactly one unchecked item.
C17_TaskListOutsideCode ==
    /\ ruleBlock.type = "bullet_list"
         => Len(typed) > Len(TaskInput) \/ typed # SubSeq(TaskInput, 1, Len(typed))
    /\ typed = TaskInput /\ ruleBlock.type \notin CodeBlocks
         => ruleBlock = [type |-> "task_list", text |-> <<>>, items |-> <<FALSE>>]

\* C17: "- [ ] " was typed into a paragraph or heading and made a task list
C17_Witness ==
    /\ typed = TaskInput
    /\ ruleBlock.type = "task_list"
    /\ ruleBlock.items = <<FALSE>>

\* C17 as stated: "- [ ] " typed at the start of any block gives a task list
\* with exactly one unchecked item.
C17_TaskListAlways ==
    typed = TaskInput
      => ruleBlock = [type |-> "task_list", text |-> <<>>, items |-> <<FALSE>>]

\* the keys of a horizontal rule: three or more of "-", "*", "_", then a blank
RuleMarkers == {"-", "*", "_"}
MarkerRun(keys) ==
    /\ Len(keys) >= 4
    /\ keys[Len(keys)] = Blank
    /\ \A i \in 1..(Len(keys) - 1) : keys[i] \in RuleMarkers

\* C29 as stated: when the blank that ends a run of three or more "-", "*" or
\* "_" is typed at the start of a paragraph, the paragraph is replaced by a
\* horizontal rule.
C29_MarkerRunMakesRule ==
    [][TypeKey /\ ruleBlock.type = "paragraph" /\ MarkerRun(typed')
         => ruleBlock'.type = "horizontal_rule"]_ruleVars

\* C39 as stated: when a key completes the pattern of a block-replacing rule
\* (task list, checked task list, horizontal rule) in front of text, the text
\* after the cursor is still in the document afterwards.
C39_FollowingTextKept ==
    [][TypeKey /\ ruleBlock.type \in TextBlocks
         /\ ruleBlock'.type \in {"task_list", "horizontal_rule"}
         => textAfter' = textAfter]_ruleVars

\* --------------------------------------------------------- block commands
\* text blocks the document holds at most
MaxParas == 4

\* what the block commands leave alone
notBlocks == <<vars, slashVars, ruleVars, payloadVars, docVars>>

\* the number of text blocks in a sequence of top-level blocks
RECURSIVE Paras(_)
Paras(bs) ==
    IF bs = <<>> THEN 0
    ELSE (IF Head(bs).type = "paragraph" THEN 1 ELSE Len(Head(bs).kids)) + Paras(Tail(bs))

\* the text blocks a cursor can be in
Paths(bs) ==
    {[top |-> i, kid |-> 0] : i \in {k \in 1..Len(bs) : bs[k].type = "paragraph"}}
      \cup UNION {{[top |-> i, kid |-> j] : j \in 1..Len(bs[i].kids)} : i \in 1..Len(bs)}

\* the text block the cursor is in
Current(bs, c) == IF c.kid = 0 THEN bs[c.top] ELSE bs[c.top].kids[c.kid]

Remove(seq, k) == SubSeq(seq, 1, k - 1) \o SubSeq(seq, k + 1, Len(seq))
InsertAt(seq, k, x) == SubSeq(seq, 1, k - 1) \o <<x>> \o SubSeq(seq, k, Len(seq))

\* the first and the last text block of a top-level block
First(bs, i) == [top |-> i, kid |-> IF bs[i].type = "paragraph" THEN 0 ELSE 1]
Last(bs, i) == [top |-> i, kid |-> Len(bs[i].kids)]

\* Selection.near at the boundary before top-level block k: the next text
\* block, and the one before when there is none
Near(bs, k) == IF k <= Len(bs) THEN First(bs, k) ELSE Last(bs, k - 1)

\* Selection.near at the boundary before kid j of blockquote i
NearIn(bs, i, j) ==
    IF j <= Len(bs[i].kids) THEN [top |-> i, kid |-> j]
    ELSE IF i < Len(bs) THEN First(bs, i + 1)
    ELSE [top |-> i, kid |-> j - 1]

\* tr.join between the blockquotes i and i + 1
Join(bs, i) ==
    SubSeq(bs, 1, i - 1) \o <<Q(bs[i].kids \o bs[i + 1].kids)>> \o SubSeq(bs, i + 2, Len(bs))

\* what a command did: the document, the cursor and the value returned
Did(bs, c, r) == [blocks |-> bs, at |-> c, returned |-> r]

\* joinUp(state): the closest ancestor of the cursor that can be joined with
\* the sibling above it, a blockquote below a blockquote
JoinsUp(bs, c) == c.kid >= 1 /\ c.top > 1 /\ bs[c.top - 1].type = "blockquote"

\* joinDown(state)
JoinsDown(bs, c) == c.kid >= 1 /\ c.top < Len(bs) /\ bs[c.top + 1].type = "blockquote"

moveBlockUp(bs, c) ==
    LET i == c.top
        j == c.kid
    IN  IF JoinsUp(bs, c)
        THEN Did(Join(bs, i - 1), [top |-> i - 1, kid |-> Len(bs[i - 1].kids) + j], "true")
        ELSE IF (j = 0 /\ i = 1) \/ j = 1
        THEN Did(bs, c, "false")                \* $pos.index($pos.depth) === 0
        ELSE IF j = 0
        THEN Did(bs, c, "throws")               \* $pos.before(0)
        ELSE LET kids == bs[i].kids             \* prevStart is the start of the parent
                 after == IF j < Len(kids) THEN <<Q(SubSeq(kids, j + 1, Len(kids)))>> ELSE <<>>
                 moved == SubSeq(bs, 1, i - 1) \o <<kids[j], Q(SubSeq(kids, 1, j - 1))>>
                            \o after \o SubSeq(bs, i + 1, Len(bs))
             IN  Did(moved, Near(moved, i + 2), "true")

moveBlockDown(bs, c) ==
    LET i == c.top
        j == c.kid
        swap(seq, k) == SubSeq(seq, 1, k - 1) \o <<seq[k + 1], seq[k]>> \o SubSeq(seq, k + 2, Len(seq))
    IN  IF JoinsDown(bs, c) THEN Did(Join(bs, i), c, "true")
        ELSE IF j = 0
        THEN IF i >= Len(bs) - 1 THEN Did(bs, c, "false")
             ELSE Did(swap(bs, i), First(swap(bs, i), i + 2), "true")
        ELSE IF j >= Len(bs[i].kids) - 1 THEN Did(bs, c, "false")
             ELSE Did([bs EXCEPT ![i].kids = swap(@, j)], [top |-> i, kid |-> j + 2], "true")

deleteBlock(bs, c) ==
    LET i == c.top
        j == c.kid
    IN  IF Len(bs) = 1                          \* state.doc.childCount === 1
        THEN IF j = 0 THEN Did([bs EXCEPT ![i].text = <<>>], c, "true")
             ELSE Did([bs EXCEPT ![i].kids[j].text = <<>>], c, "true")
        ELSE IF j = 0 THEN Did(Remove(bs, i), Near(Remove(bs, i), i), "true")
        ELSE IF Len(bs[i].kids) > 1
        THEN LET less == [bs EXCEPT ![i].kids = Remove(@, j)]
             IN  Did(less, NearIn(less, i, j), "true")
        ELSE LET filled == [bs EXCEPT ![i].kids = <<P(<<>>)>>]   \* the quote is refilled
             IN  Did(filled, NearIn(filled, i, 2), "true")

duplicateBlock(bs, c) ==
    IF c.kid = 0
    THEN Did(InsertAt(bs, c.top + 1, bs[c.top]), [top |-> c.top + 1, kid |-> 0], "true")
    ELSE Did([bs EXCEPT ![c.top].kids = InsertAt(@, c.kid + 1, @[c.kid])],
             [top |-> c.top, kid |-> c.kid + 1], "true")

\* insertBlock for the block types paragraph and blockquote, the cursor at
\* the start of a top-level paragraph
insertBlock(bs, c, id) ==
    LET i == c.top
        quote == Q(<<P(<<>>)>>)
    IN  IF id = "paragraph" THEN Did(bs, c, "false")      \* setBlockType does not apply
        ELSE IF bs[i].text # <<>>
        THEN Did(InsertAt(bs, i, quote), [top |-> i + 1, kid |-> 0], "true")
        ELSE LET put == [bs EXCEPT ![i] = quote]
             IN  Did(put, Near(put, i + 1), "true")

exitBlock(bs, c) ==
    IF c.kid = 0 THEN Did(bs, c, "false")
    ELSE Did(InsertAt(bs, c.top + 1, P(<<>>)), [top |-> c.top + 1, kid |-> 0], "true")

\* node.textContent === "" for the blockquote the cursor is in
NoText(bs, c) == c.kid >= 1 /\ \A k \in 1..Len(bs[c.top].kids) : bs[c.top].kids[k].text = <<>>

\* exitBlockOnBackspace, the cursor at offset 0 of its paragraph: a blockquote
\* without text is replaced by an empty paragraph
exitBlockOnBackspace(bs, c) ==
    IF NoText(bs, c)
    THEN Did([bs EXCEPT ![c.top] = P(<<>>)], [top |-> c.top, kid |-> 0], "true")
    ELSE Did(bs, c, "false")

\* joinBackward of baseKeymap, the cursor at offset 0 of a paragraph in a
\* blockquote: the paragraph is joined with the paragraph before it in the
\* blockquote; the first paragraph is lifted out of the blockquote, or its
\* blockquote is joined with a blockquote before it
joinBackward(bs, c) ==
    LET i == c.top
        j == c.kid
        kids == bs[i].kids
    IN  IF j > 1
        THEN Did([bs EXCEPT ![i].kids =
                     SubSeq(kids, 1, j - 2) \o <<P(kids[j - 1].text \o kids[j].text)>>
                       \o SubSeq(kids, j + 1, Len(kids))],
                 [top |-> i, kid |-> j - 1], "true")
        ELSE IF i > 1 /\ bs[i - 1].type = "blockquote"
        THEN Did(Join(bs, i - 1), [top |-> i - 1, kid |-> Len(bs[i - 1].kids) + 1], "true")
        ELSE Did(SubSeq(bs, 1, i - 1) \o <<kids[1]>>
                   \o (IF Len(kids) > 1 THEN <<Q(Tail(kids))>> ELSE <<>>)
                   \o SubSeq(bs, i + 1, Len(bs)),
                 [top |-> i, kid |-> 0], "true")

\* the targets transformBlock is asked for; "image" is a node type that no
\* branch handles
Targets == {"paragraph", "blockquote", "image"}

\* lift: the paragraph of a blockquote moves out of it, the blockquote is split
\* around it; a top-level paragraph has nothing to be lifted out of
lift(bs, c) ==
    LET i == c.top
        j == c.kid
        kids == bs[i].kids
    IN  IF j = 0 THEN Did(bs, c, "false")
        ELSE Did(SubSeq(bs, 1, i - 1)
                   \o (IF j > 1 THEN <<Q(SubSeq(kids, 1, j - 1))>> ELSE <<>>)
                   \o <<kids[j]>>
                   \o (IF j < Len(kids) THEN <<Q(SubSeq(kids, j + 1, Len(kids)))>> ELSE <<>>)
                   \o SubSeq(bs, i + 1, Len(bs)),
                 [top |-> IF j > 1 THEN i + 1 ELSE i, kid |-> 0], "true")

\* transformBlock: setBlockType finds nothing to change in a paragraph, the
\* target blockquote runs lift, and a target without a branch returns false
transformBlock(bs, c, targetType) ==
    IF targetType = "blockquote" THEN lift(bs, c)
    ELSE Did(bs, c, "false")

\* the command runs on the view
Run(did) ==
    /\ blocks' = did.blocks
    /\ at' = did.at
    /\ returned' = did.returned

MoveBlockUp ==
    /\ Run(moveBlockUp(blocks, at))
    /\ UNCHANGED notBlocks

MoveBlockDown ==
    /\ Run(moveBlockDown(blocks, at))
    /\ UNCHANGED notBlocks

DeleteBlock ==
    /\ Run(deleteBlock(blocks, at))
    /\ UNCHANGED notBlocks

DuplicateBlock ==
    /\ Paras(blocks) < MaxParas
    /\ Run(duplicateBlock(blocks, at))
    /\ UNCHANGED notBlocks

InsertBlock ==
    /\ Paras(blocks) < MaxParas
    /\ at.kid = 0
    /\ \E id \in {"paragraph", "blockquote"} : Run(insertBlock(blocks, at, id))
    /\ UNCHANGED notBlocks

ExitBlock ==
    /\ Paras(blocks) < MaxParas
    /\ Run(exitBlock(blocks, at))
    /\ UNCHANGED notBlocks

\* Backspace with the cursor at offset 0 of a paragraph in a blockquote
\* without text. No keymap binds exitBlockOnBackspace, so the key goes to
\* baseKeymap: deleteSelection does not apply to a cursor, joinBackward does.
BackspaceAtStart ==
    /\ NoText(blocks, at)
    /\ Run(joinBackward(blocks, at))
    /\ UNCHANGED notBlocks

TransformBlock(targetType) ==
    /\ Run(transformBlock(blocks, at, targetType))
    /\ UNCHANGED notBlocks

\* a click puts the cursor into a text block
PlaceCursor ==
    /\ \E c \in Paths(blocks) : at' = c
    /\ returned' = "none"
    /\ UNCHANGED <<blocks, notBlocks>>

BlockNext ==
    \/ BackspaceAtStart
    \/ \E targetType \in Targets : TransformBlock(targetType)
    \/ MoveBlockUp
    \/ MoveBlockDown
    \/ DeleteBlock
    \/ DuplicateBlock
    \/ InsertBlock
    \/ ExitBlock
    \/ PlaceCursor

BlockSpec == Init /\ [][BlockNext]_blockVars

\* the document fits its schema and the cursor is in one of its text blocks
BlockTypeOK ==
    /\ at \in Paths(blocks)
    /\ \A i \in 1..Len(blocks) : blocks[i].type = "blockquote" => Len(blocks[i].kids) >= 1
    /\ Paras(blocks) <= MaxParas

\* the cursor is in the first block of its parent
InFirstBlock == at.kid = 1 \/ (at.kid = 0 /\ at.top = 1)

\* C18 as stated: moveBlockUp with the cursor in the first block of its parent
\* returns false and leaves the document unchanged.
C18_MoveUpFirstFails ==
    [][MoveBlockUp /\ InFirstBlock => returned' = "false" /\ blocks' = blocks]_blockVars

\* the current block has a sibling in its parent
HasSibling == IF at.kid = 0 THEN Len(blocks) > 1 ELSE Len(blocks[at.top].kids) > 1

\* C19 as stated: the document always holds at least one block, and
\* deleteBlock removes the current block (where its parent keeps another
\* one), except that on the only block of the document it clears the content
\* and keeps the node.
C19_AtLeastOneBlock ==
    /\ [](Len(blocks) >= 1)
    /\ [][DeleteBlock
           => /\ Paras(blocks) = 1
                   => Paras(blocks') = 1 /\ Current(blocks', at').text = <<>>
              /\ HasSibling => Paras(blocks') = Paras(blocks) - 1]_blockVars

\* a sequence with its elements k and k + 1 exchanged
Swapped(seq, k) ==
    SubSeq(seq, 1, k - 1) \o <<seq[k + 1], seq[k]>> \o SubSeq(seq, k + 2, Len(seq))

\* the document with the cursor's block and the sibling before it exchanged
SwappedUp(bs, c) ==
    IF c.kid = 0 THEN Swapped(bs, c.top - 1)
    ELSE [bs EXCEPT ![c.top].kids = Swapped(@, c.kid - 1)]

\* the document with the cursor's block and the sibling after it exchanged
SwappedDown(bs, c) ==
    IF c.kid = 0 THEN Swapped(bs, c.top)
    ELSE [bs EXCEPT ![c.top].kids = Swapped(@, c.kid)]

\* the cursor's block has a sibling before it, after it
HasBefore(bs, c) == IF c.kid = 0 THEN c.top > 1 ELSE c.kid > 1
HasAfter(bs, c) == IF c.kid = 0 THEN c.top < Len(bs) ELSE c.kid < Len(bs[c.top].kids)

\* C30 as stated: moveBlockUp on a block with a sibling before it, and
\* moveBlockDown on a block with a sibling after it, exchange the block with
\* that sibling in their parent and change nothing else.
C30_MoveSwapsSiblings ==
    /\ [][MoveBlockUp /\ HasBefore(blocks, at)
            => returned' = "true" /\ blocks' = SwappedUp(blocks, at)]_blockVars
    /\ [][MoveBlockDown /\ HasAfter(blocks, at)
            => returned' = "true" /\ blocks' = SwappedDown(blocks, at)]_blockVars

\* the cursor's blockquote holds nothing but one empty paragraph
EmptyContainer(bs, c) == c.kid >= 1 /\ bs[c.top].kids = <<P(<<>>)>>

\* C31 as stated: exitBlock with the cursor in a blockquote replaces a
\* blockquote whose content is empty by a plain paragraph, and otherwise
\* inserts a paragraph right after the blockquote and moves the cursor into it.
C31_ExitReplacesEmpty ==
    [][ExitBlock /\ at.kid >= 1
         => /\ returned' = "true"
            /\ blocks' = IF EmptyContainer(blocks, at)
                         THEN [blocks EXCEPT ![at.top] = P(<<>>)]
                         ELSE InsertAt(blocks, at.top + 1, P(<<>>))
            /\ at' = [top |-> IF EmptyContainer(blocks, at) THEN at.top ELSE at.top + 1,
                      kid |-> 0]]_blockVars

\* C32 as stated: Backspace with the cursor at offset 0 in a blockquote whose
\* content is empty does what exitBlockOnBackspace does: the blockquote is
\* converted to a plain paragraph, and no paragraphs are joined.
C32_BackspaceConverts ==
    [][BackspaceAtStart
         => /\ blocks' = exitBlockOnBackspace(blocks, at).blocks
            /\ at' = exitBlockOnBackspace(blocks, at).at]_blockVars

\* C33 as stated: transformBlock with the target blockquote, the cursor in a
\* top-level paragraph, leaves a blockquote that contains the paragraph.
C33_TransformWraps ==
    [][TransformBlock("blockquote") /\ at.kid = 0
         => blocks' = [blocks EXCEPT ![at.top] = Q(<<blocks[at.top]>>)]]_blockVars

\* ------------------------------------------------------ structured payload
\* nodes a payload holds at most
MaxNodes == 3

\* what accepting a payload leaves alone
notPayload == <<vars, slashVars, ruleVars, blockVars, docVars>>

\* node data of a payload: list tells whether content is an array
TextData(text) == [type |-> "text", text |-> text, content |-> <<>>, list |-> TRUE]
NodeData(type, content, list) == [type |-> type, text |-> <<>>, content |-> content, list |-> list]

\* the nodes the text service sends
PayloadNodes ==
    {TextData(<<"a">>), TextData(<<>>),
     NodeData("bogus", <<TextData(<<"a">>)>>, TRUE),
     NodeData("paragraph", <<TextData(<<"a">>)>>, FALSE)}
      \cup {NodeData("paragraph", c, TRUE) :
              c \in {<<TextData(<<"a">>)>>, <<TextData(<<>>)>>, <<TextData(<<"a">>), TextData(<<>>)>>}}

Payloads == UNION {[1..n -> PayloadNodes] : n \in 0..MaxNodes}

\* the node types of the schema that the payloads use
SchemaNodes == {"paragraph", "text"}

\* convertNode returned null
NoNode == [type |-> "null", text |-> <<>>, content |-> <<>>]

Node(type, text, content) == [type |-> type, text |-> text, content |-> content]

\* convertNode on a text node: schema.text throws on an empty string
convertText(nodeData) ==
    IF nodeData.type \notin SchemaNodes THEN NoNode
    ELSE IF nodeData.text = <<>> THEN NoNode
    ELSE Node("text", nodeData.text, <<>>)

\* convertNode: null for an unknown type and for every error caught
convertNode(nodeData) ==
    IF nodeData.type \notin SchemaNodes THEN NoNode
    ELSE IF ~nodeData.list THEN NoNode
    ELSE IF nodeData.type = "text" THEN convertText(nodeData)
    ELSE LET kids == [i \in 1..Len(nodeData.content) |-> convertText(nodeData.content[i])]
         IN  Node(nodeData.type, <<>>, SelectSeq(kids, LAMBDA n : n # NoNode))

\* jsonToNodes: the nodes that converted
jsonToNodes(content) ==
    SelectSeq([i \in 1..Len(content) |-> convertNode(content[i])], LAMBDA n : n # NoNode)

\* the streaming effect finds a payload between the markers and shows the
\* display text
StreamPayload ==
    /\ ~parsedJsonRef.set
    /\ \E content \in Payloads : parsedJsonRef' = [set |-> TRUE, content |-> content]
    /\ suggestion' = [text |-> <<"h", "i">>, nodes |-> <<>>]
    /\ UNCHANGED notPayload

\* handleAccept with a payload: the display text is deleted, the converted
\* nodes are inserted in its place, the refs are reset
AcceptPayload ==
    /\ parsedJsonRef.set
    /\ suggestion' = [text |-> <<>>, nodes |-> jsonToNodes(parsedJsonRef.content)]
    /\ parsedJsonRef' = NoPayload
    /\ UNCHANGED notPayload

PayloadNext ==
    \/ StreamPayload
    \/ AcceptPayload

PayloadSpec == Init /\ [][PayloadNext]_payloadVars

\* the text of a node of the payload
RECURSIVE TextOf(_)
TextOf(nodeData) ==
    IF nodeData.content = <<>> THEN nodeData.text
    ELSE nodeData.text \o TextOf(Head(nodeData.content))
           \o TextOf([nodeData EXCEPT !.text = <<>>, !.content = Tail(@)])

\* the conversion of the node threw and was caught
Throws(nodeData) == nodeData.type \in SchemaNodes /\ convertNode(nodeData) = NoNode

\* C20 as stated: on accept every node of the payload that converts is
\* inserted as converted, and every node whose conversion threw is inserted
\* as a plain text run of its text (nothing where it has no text).
C20_FailedNodeAsText ==
    [][AcceptPayload
         => suggestion'.nodes =
              SelectSeq([i \in 1..Len(parsedJsonRef.content) |->
                           IF Throws(parsedJsonRef.content[i])
                           THEN Node("text", TextOf(parsedJsonRef.content[i]), <<>>)
                           ELSE convertNode(parsedJsonRef.content[i])],
                        LAMBDA n : n # NoNode /\ n # Node("text", <<>>, <<>>))]_payloadVars

\* ---------------------------------------------------- documents and auto-save
\* versions a title or a content goes through at most
MaxEdits == 1

notDocs == <<vars, slashVars, ruleVars, blockVars, payloadVars>>

\* { ...doc, ...updates }
Merge(document, updates) ==
    [title |-> IF updates.title # Absent THEN updates.title ELSE document.title,
     content |-> IF updates.content # NoContent THEN updates.content ELSE document.content]

Listed(id) == \E i \in 1..Len(documents) : documents[i] = id

\* updateDocument, online: the document in the list takes the updates at once;
\* the timer of the document is cleared and a new one is armed that will write
\* the updates of this call
updateDocument(id, updates) ==
    /\ localDoc' = IF Listed(id) THEN [localDoc EXCEPT ![id] = Merge(@, updates)] ELSE localDoc
    /\ pendingUpdates' = [pendingUpdates EXCEPT ![id] = updates]
    /\ UNCHANGED <<documents, remoteDoc, deleting, activeDocId>>

\* the 500 ms timer of a document: updateFirebaseDoc(id, updates) writes the
\* fields of the updates; updateDoc fails for a document that is being or has
\* been deleted
FirebaseTimer(id) ==
    /\ pendingUpdates[id] # NoUpdate
    /\ remoteDoc' = IF Listed(id) /\ \A r \in deleting : r.id # id
                    THEN [remoteDoc EXCEPT ![id] = Merge(@, pendingUpdates[id])]
                    ELSE remoteDoc
    /\ pendingUpdates' = [pendingUpdates EXCEPT ![id] = NoUpdate]
    /\ UNCHANGED <<documents, localDoc, deleting, activeDocId, autoSaveVars, notDocs>>

\* handleSelectDocument
HandleSelectDocument(id) ==
    /\ Listed(id)
    /\ activeDocId' = id
    /\ UNCHANGED <<documents, localDoc, remoteDoc, pendingUpdates, deleting, autoSaveVars, notDocs>>

\* handleDeleteDocument: with more than one document in the list the click
\* calls deleteDocument, which awaits deleteFirebaseDoc
HandleDeleteDocument(id) ==
    /\ Listed(id)
    /\ Len(documents) > 1
    /\ deleting' = deleting \cup {[id |-> id, activeDocId |-> activeDocId]}
    /\ UNCHANGED <<documents, localDoc, remoteDoc, pendingUpdates, activeDocId, autoSaveVars, notDocs>>

\* deleteDocument after the await: the document leaves the list, and the first
\* of the others becomes active if the deleted one was
DeleteDone(r) ==
    /\ r \in deleting
    /\ documents' = SelectSeq(documents, LAMBDA d : d # r.id)
    /\ activeDocId' = IF r.activeDocId = r.id
                      THEN (IF documents' # <<>> THEN documents'[1] ELSE NoDoc)
                      ELSE activeDocId
    /\ deleting' = deleting \ {r}
    /\ UNCHANGED <<localDoc, remoteDoc, pendingUpdates, autoSaveVars, notDocs>>

\* performSave of the last render: onSave is updateDocument(activeDocument.id, { content })
performSave(content) ==
    IF documentId = NoDoc \/ content = lastSavedContentRef
    THEN UNCHANGED <<storeVars, lastSavedContentRef, pendingContentRef>>
    ELSE /\ updateDocument(documentId, [title |-> Absent, content |-> content])
         /\ lastSavedContentRef' = content
         /\ pendingContentRef' = NoContent

\* handleContentUpdate: the editor of the rendered document reports an edit
HandleContentUpdate ==
    /\ documentId # NoDoc
    /\ \E n \in 1..MaxEdits :
         /\ pendingContentRef' = Content(documentId, n)
         /\ saveTimeoutRef' = Content(documentId, n)
    /\ UNCHANGED <<storeVars, lastSavedContentRef, documentId, initialContent, notDocs>>

\* the debounce timer fires
DebounceTimer ==
    /\ saveTimeoutRef # NoContent
    /\ performSave(saveTimeoutRef)
    /\ saveTimeoutRef' = NoContent
    /\ UNCHANGED <<documentId, initialContent, notDocs>>

\* the periodic save
PeriodicSave ==
    /\ pendingContentRef # NoContent
    /\ pendingContentRef # lastSavedContentRef
    /\ documentId # NoDoc
    /\ performSave(pendingContentRef)
    /\ UNCHANGED <<saveTimeoutRef, documentId, initialContent, notDocs>>

\* activeDocument?.content || ""
currentContent ==
    IF activeDocId # NoDoc /\ Listed(activeDocId) THEN localDoc[activeDocId].content ELSE NoContent

\* the page renders (its documents, its active document, its save status, its
\* title or its AI state changed). onSave is a new function in every render,
\* so the cleanup of the last render runs: it clears the debounce timer and
\* saves the pending content with the onSave of that render. Then the effects
\* of this render run with its documentId and initialContent.
Render ==
    /\ saveTimeoutRef' = NoContent
    /\ IF pendingContentRef # NoContent /\ documentId # NoDoc
       THEN updateDocument(documentId, [title |-> Absent, content |-> pendingContentRef])
       ELSE UNCHANGED storeVars
    /\ documentId' = activeDocId
    /\ initialContent' = currentContent
    /\ lastSavedContentRef' = IF activeDocId # documentId \/ currentContent # initialContent
                              THEN currentContent
                              ELSE lastSavedContentRef
    /\ UNCHANGED <<pendingContentRef, notDocs>>

DocNext ==
    \/ \E id \in Docs : HandleSelectDocument(id)
    \/ \E id \in Docs : HandleDeleteDocument(id)
    \/ \E id \in Docs, active \in Docs : DeleteDone([id |-> id, activeDocId |-> active])
    \/ \E id \in Docs : FirebaseTimer(id)
    \/ HandleContentUpdate
    \/ DebounceTimer
    \/ PeriodicSave
    \/ Render

DocSpec == Init /\ [][DocNext]_docVars

Contents == {Content(d, n) : d \in Docs, n \in 0..MaxEdits} \cup {NoContent}

DocTypeOK ==
    /\ \A i \in 1..Len(documents) : documents[i] \in Docs
    /\ \A d \in Docs : localDoc[d].content \in Contents /\ remoteDoc[d].content \in Contents
    /\ activeDocId \in Docs \cup {NoDoc}
    /\ documentId \in Docs \cup {NoDoc}
    /\ pendingContentRef \in Contents
    /\ lastSavedContentRef \in Contents
    /\ saveTimeoutRef \in Contents

\* C38 as stated: after the initial load the list of documents is never empty
C38_ListNeverEmpty == documents # <<>>

\* C36 as stated: the content a document has got from a save of auto-save, in
\* the list or waiting in its timer, was produced by editing that document
C36_SavedContentIsOwn ==
    \A d \in Docs :
        /\ localDoc[d].content.by = d
        /\ pendingUpdates[d].content.by \in {d, NoDoc}

\* ------------------------------------------------------- updates that persist
\* updateDocument(id, { title }) with the next title
UpdateTitle(id) ==
    /\ localDoc[id].title < MaxEdits
    /\ updateDocument(id, [title |-> localDoc[id].title + 1, content |-> NoContent])
    /\ UNCHANGED <<autoSaveVars, notDocs>>

\* updateDocument(id, { content }) with the next content
UpdateContent(id) ==
    /\ localDoc[id].content.n < MaxEdits
    /\ updateDocument(id, [title |-> Absent, content |-> Content(id, localDoc[id].content.n + 1)])
    /\ UNCHANGED <<autoSaveVars, notDocs>>

UpdateNext ==
    \/ \E id \in Docs : UpdateTitle(id)
    \/ \E id \in Docs : UpdateContent(id)
    \/ \E id \in Docs : FirebaseTimer(id)

\* a timer that is not cleared fires
UpdateSpec ==
    Init /\ [][UpdateNext]_docVars /\ \A id \in Docs : WF_docVars(FirebaseTimer(id))

\* C37 as stated: once the updates have stopped, the remote copy of every
\* document has the title and the content of the local copy, for good
C37_EventuallyPersisted ==
    <>[](\A d \in Docs : remoteDoc[d] = localDoc[d])

\* the fields of the last update of every document do get persisted
LastUpdatePersisted ==
    <>[](\A d \in Docs : pendingUpdates[d] = NoUpdate)

====
